---- MODULE Spec2Model ----
(***************************************************************************)
(* Model of src/app.py (Roteirizador de Entregas): one run of the script   *)
(* from the uploaded manifest to the exported route.                       *)
(*                                                                         *)
(* Text is modelled as a tuple of one-character strings, so that split(),  *)
(* lower(), startswith() and the f-string are computed, not assumed.       *)
(* A Python None / pandas NaN of a numeric or object value is the empty    *)
(* tuple and a present value v is <<v>>; a NaN text cell is NaNTexto.      *)
(***************************************************************************)
EXTENDS Integers, Sequences, FiniteSets, TLC

\* ------------------------------------------------------------------ bounds
MaxLinhas == 2

\* ------------------------------------------------------- program constants
retries == 3
LatPadrao == -14768865
LonPadrao == -39255508

None == <<>>
Some(v) == <<v>>
NaNTexto == <<"NaN">>

\* ------------------------------------------------------------------- text
\* The characters of the manifests below, in code-point order.
Alfabeto ==
  <<" ", ",", "-", "0", "1", "2", "3", "4", "5", "6", "7", "8", "9",
    "A", "B", "C", "D", "E", "F", "G", "H", "I", "J", "K", "L", "M",
    "N", "O", "P", "Q", "R", "S", "T", "U", "V", "W", "X", "Y", "Z",
    "a", "b", "c", "d", "e", "f", "g", "h", "i", "j", "k", "l", "m",
    "n", "o", "p", "q", "r", "s", "t", "u", "v", "w", "x", "y", "z">>

Ord(c) == CHOOSE k \in 1..Len(Alfabeto) : Alfabeto[k] = c

IsDigit(c) == Ord(c) \in 4..13
IsUpper(c) == Ord(c) \in 14..39
IsLetter(c) == Ord(c) \in 14..65

\* str.lower()
LowerChar(c) == IF IsUpper(c) THEN Alfabeto[Ord(c) + 26] ELSE c
Lower(s) == [k \in 1..Len(s) |-> LowerChar(s[k])]

\* str.startswith(prefix)
StartsWith(s, p) == Len(s) >= Len(p) /\ SubSeq(s, 1, Len(p)) = p

\* Python's < on str: lexicographic by code point.
RECURSIVE StrLess(_, _)
StrLess(a, b) ==
  IF b = <<>> THEN FALSE
  ELSE IF a = <<>> THEN TRUE
  ELSE IF Head(a) = Head(b) THEN StrLess(Tail(a), Tail(b))
  ELSE Ord(Head(a)) < Ord(Head(b))

\* sorted(list(set))
RECURSIVE Sorted(_)
Sorted(S) ==
  IF S = {} THEN <<>>
  ELSE LET m == CHOOSE x \in S : \A y \in S \ {x} : StrLess(x, y)
       IN <<m>> \o Sorted(S \ {m})

\* str.strip().split(): the maximal runs of non-blank characters.
RECURSIVE SplitAcc(_, _, _)
SplitAcc(s, cur, acc) ==
  IF s = <<>> THEN (IF cur = <<>> THEN acc ELSE Append(acc, cur))
  ELSE IF Head(s) = " "
       THEN SplitAcc(Tail(s), <<>>, IF cur = <<>> THEN acc ELSE Append(acc, cur))
       ELSE SplitAcc(Tail(s), Append(cur, Head(s)), acc)

Split(s) == SplitAcc(s, <<>>, <<>>)

\* " ".join(tokens)
RECURSIVE Join(_)
Join(ts) ==
  IF ts = <<>> THEN <<>>
  ELSE IF Len(ts) = 1 THEN ts[1]
  ELSE ts[1] \o <<" ">> \o Join(Tail(ts))

Range(f) == {f[k] : k \in DOMAIN f}

\* ------------------------------------------------------------- extraction
\* extrair_letras_unicas
extrair_letras_unicas(ls) ==
  Sorted({ Split(ls[k])[2] : k \in {j \in 1..Len(ls) :
             /\ Len(Split(ls[j])) >= 3
             /\ StartsWith(Split(ls[j])[2], <<"A", "-">>)} })

\* the record of one line, or no record (lines 38-58)
RegistroDe(partes) ==
  LET n == Len(partes)
      endereco == Join(SubSeq(partes, 4, n - 3))
      bairro == partes[n - 2]
      cep == partes[n - 1]
      cidade == partes[n]
  IN [sequencia |-> partes[1],
      letras |-> partes[2],
      br |-> partes[3],
      endereco |-> endereco,
      bairro |-> bairro,
      cep |-> cep,
      endereco_formatado |->
        endereco \o <<",", " ">> \o bairro \o <<",", " ">> \o cidade
                 \o <<",", " ">> \o cep]

Itabuna_lower == <<"i", "t", "a", "b", "u", "n", "a">>

LinhaAceita(partes, letras_sel) ==
  /\ Len(partes) >= 7
  /\ partes[2] \in Range(letras_sel)
  /\ Lower(partes[Len(partes)]) = Itabuna_lower

RECURSIVE processar_dados(_, _)
processar_dados(ls, letras_sel) ==
  IF ls = <<>> THEN <<>>
  ELSE LET partes == Split(Head(ls))
           resto == processar_dados(Tail(ls), letras_sel)
       IN IF LinhaAceita(partes, letras_sel)
          THEN <<RegistroDe(partes)>> \o resto
          ELSE resto

\* pd.DataFrame(dados): the rows labelled 0..n-1 (rotulo is the index label)
DataFrame(dados) == [k \in 1..Len(dados) |-> dados[k] @@ [rotulo |-> k - 1]]

\* reset_index(drop=True)
ResetIndex(d) == [k \in 1..Len(d) |-> [d[k] EXCEPT !.rotulo = k - 1]]

\* ---------------------------------------------------------------- inputs
T_A12 == <<"A", "-", "1", "2">>
T_A7 == <<"A", "-", "7">>
T_AXY == <<"A", "-", "X", "Y">>
T_BR == <<"B", "R", "1", "0", "1">>
T_Rua == <<"R", "u", "a">>
T_Sol == <<"S", "o", "l">>
T_Centro == <<"C", "e", "n", "t", "r", "o">>
T_Cep8 == <<"4", "5", "6", "0", "0", "0", "0", "0">>
T_Cep7 == <<"4", "5", "6", "0", "0", "0", "0">>
T_Itabuna == <<"I", "t", "a", "b", "u", "n", "a">>
T_ITABUNA == <<"I", "T", "A", "B", "U", "N", "A">>
T_Ilheus == <<"I", "l", "h", "e", "u", "s">>

\* The lines a manifest is drawn from: a well-formed record, a record padded
\* with blanks, a line with a 7-digit postal token, a line whose code is
\* A-XY, a line of another city, and a heading.
Manifesto ==
  { Join(<< <<"1">>, T_A12, T_BR, T_Rua, T_Sol, T_Centro, T_Cep8, T_Itabuna >>),
    <<" ">> \o Join(<< <<"2">>, T_A7, T_BR, T_Rua, <<" ">>, T_Centro, T_Cep8,
                       T_ITABUNA >>) \o <<" ">>,
    Join(<< <<"3">>, T_A12, T_BR, T_Sol, T_Centro, T_Cep7, T_Itabuna >>),
    Join(<< <<"4">>, T_AXY, T_BR, T_Sol, T_Centro, T_Cep8, T_Itabuna >>),
    Join(<< <<"5">>, T_A7, T_BR, T_Rua, T_Centro, T_Cep8, T_Ilheus >>),
    Join(<< T_Rua, T_Sol >>) }

\* what the user may type as the origin
Latitudes == {LatPadrao, 0}
Longitudes == {LonPadrao, 0}

\* the coordinates the lookup service may answer
Coordenadas == { <<-14790000, -39280000>>, <<-14800000, -39270000>> }

\* what one call geolocator.geocode(address, timeout=10) may do: answer a
\* location, answer None (not found), raise GeocoderTimedOut, or raise any
\* other exception (GeocoderQueryError, GeocoderServiceError, ...)
Respostas ==
  {[tipo |-> "location", coord |-> c] : c \in Coordenadas}
    \cup {[tipo |-> t, coord |-> None] : t \in {"none", "timeout", "erro"}}

\* ------------------------------------------------------- distance matrix
Abs(x) == IF x < 0 THEN -x ELSE x

\* int(haversine(p, q, KILOMETERS) * 1000): the library's great-circle
\* distance is stood in for by a symmetric integer distance in metres over
\* micro-degrees, truncated by the integer division.
DistanciaMetros(p, q) ==
  ((Abs(p[1] - q[1]) + Abs(p[2] - q[2])) * 111) \div 1000

criar_matriz_distancias(pts) ==
  [a \in 1..Len(pts) |->
     [b \in 1..Len(pts) |-> IF a = b THEN 0 ELSE DistanciaMetros(pts[a], pts[b])]]

\* ----------------------------------------------------------- route solver
\* RoutingIndexManager(tamanho, 1, 0): indices 0..tamanho-1 are the nodes (the
\* vehicle starts at index 0, the depot) and index tamanho is the vehicle's
\* end, which is the depot again.
RoutingStart == 0
RoutingEnd(tamanho) == tamanho
IsEnd(index, tamanho) == index = RoutingEnd(tamanho)
IndexToNode(index, tamanho) == IF index = RoutingEnd(tamanho) THEN 0 ELSE index

Permutacoes(S) ==
  {p \in [1..Cardinality(S) -> S] : \A a, b \in DOMAIN p : a # b => p[a] # p[b]}

\* the NextVar values of the solution that visits the nodes in the order p
ProximoDe(p, tamanho) ==
  [index \in 0..(tamanho - 1) |->
     IF index = RoutingStart
     THEN (IF Len(p) = 0 THEN RoutingEnd(tamanho) ELSE p[1])
     ELSE LET k == CHOOSE j \in 1..Len(p) : p[j] = index
          IN IF k = Len(p) THEN RoutingEnd(tamanho) ELSE p[k + 1]]

\* what routing.SolveWithParameters may return for a matrix of this size: no
\* solution, or the assignment of some tour of the nodes from the depot
Solucoes(tamanho) ==
  {None} \cup {Some(ProximoDe(p, tamanho)) : p \in Permutacoes(1..(tamanho - 1))}

\* lines 122-127: follow NextVar from Start to the end index, the end included
RECURSIVE Percorrer(_, _, _)
Percorrer(proximo, index, tamanho) ==
  IF IsEnd(index, tamanho)
  THEN <<IndexToNode(index, tamanho)>>
  ELSE <<IndexToNode(index, tamanho)>> \o Percorrer(proximo, proximo[index], tamanho)

resolver_rota(mat, solution) ==
  IF solution # None
  THEN Some(Percorrer(solution[1], RoutingStart, Len(mat)))
  ELSE None

\* Python truth of resolver_rota's result (a non-empty list)
Verdadeiro(r) == r # None /\ r[1] # <<>>

\* -------------------------------------------------------- post-processing
\* df.loc[rotulo, 'ordem'] = valor: the row of that label, or a new row of
\* NaN cells when no row has the label (setting with enlargement)
LinhaNaN(rotulo, valor) ==
  [rotulo |-> rotulo, sequencia |-> NaNTexto, letras |-> NaNTexto,
   br |-> NaNTexto, endereco |-> NaNTexto, bairro |-> NaNTexto,
   cep |-> NaNTexto, endereco_formatado |-> NaNTexto,
   latitude |-> None, longitude |-> None, ordem |-> valor]

LocSetOrdem(d, rotulo, valor) ==
  IF \E k \in 1..Len(d) : d[k].rotulo = rotulo
  THEN [k \in 1..Len(d) |->
          IF d[k].rotulo = rotulo THEN [d[k] EXCEPT !.ordem = valor] ELSE d[k]]
  ELSE Append(d, LinhaNaN(rotulo, valor))

\* for ordem, posicao in enumerate(rota): df.loc[posicao - 1, 'ordem'] = ordem
RECURSIVE AtribuirOrdens(_, _, _)
AtribuirOrdens(d, rota, ordem) ==
  IF rota = <<>> THEN d
  ELSE AtribuirOrdens(LocSetOrdem(d, Head(rota) - 1, ordem), Tail(rota), ordem + 1)

\* sort_values(by='ordem'): ascending
RECURSIVE SortOrdem(_)
SortOrdem(d) ==
  IF d = <<>> THEN <<>>
  ELSE LET m == CHOOSE k \in 1..Len(d) :
                  /\ \A j \in 1..Len(d) : d[k].ordem <= d[j].ordem
                  /\ \A j \in 1..(k - 1) : d[j].ordem # d[k].ordem
           resto == [j \in 1..(Len(d) - 1) |-> IF j < m THEN d[j] ELSE d[j + 1]]
       IN <<d[m]>> \o SortOrdem(resto)

\* lines 201-205
PosProcessar(d, rota) ==
  ResetIndex(SortOrdem(
    AtribuirOrdens([k \in 1..Len(d) |-> d[k] @@ [ordem |-> -1]], Tail(rota), 0)))

\* str + str of pandas: NaN when either side is NaN
Mais(a, b) == IF a = NaNTexto \/ b = NaNTexto THEN NaNTexto ELSE a \o b

\* gerar_arquivo_rota: the rows (Nome, latitude, longitude) of the CSV
gerar_arquivo_rota(d) ==
  [k \in 1..Len(d) |->
     [Nome |-> Mais(Mais(Mais(Mais(Mais(Mais(Mais(Mais(
                 <<"P", "e", "d", "i", "d", "o", " ">>, d[k].sequencia),
                 <<" ", "-", " ">>), d[k].endereco), <<",", " ">>),
                 d[k].bairro), <<" ", "[">>), d[k].br), <<"]">>),
      latitude |-> d[k].latitude,
      longitude |-> d[k].longitude]]

\* dropna(subset=['latitude', 'longitude'])
RECURSIVE DropNa(_)
DropNa(d) ==
  IF d = <<>> THEN <<>>
  ELSE IF Head(d).latitude = None \/ Head(d).longitude = None
       THEN DropNa(Tail(d))
       ELSE <<Head(d)>> \o DropNa(Tail(d))

\* df[df['latitude'].isna()][['sequencia', 'endereco_formatado']]
RECURSIVE LatitudeNula(_)
LatitudeNula(d) ==
  IF d = <<>> THEN <<>>
  ELSE IF Head(d).latitude = None
       THEN <<[sequencia |-> Head(d).sequencia,
               endereco_formatado |-> Head(d).endereco_formatado]>>
            \o LatitudeNula(Tail(d))
       ELSE LatitudeNula(Tail(d))

\* ------------------------------------------------------------------ state
VARIABLES
  pc,                  \* the position of the script
  linhas,              \* extrair_linhas_pdf(uploaded_file)
  letras_unicas,
  letras_selecionadas,
  df,
  latitude_manual,
  longitude_manual,
  idx,                 \* geocodificar_enderecos: the row being looked up
  i,                   \* geocode_with_retry: the loop index
  location,
  latitudes,
  longitudes,
  total,
  localizados,
  descartados,
  end_falhos,
  origem,
  pontos,
  matriz,
  rota_otima,
  arquivo_csv,
  telas,               \* what has been shown to the user
  tentativas,          \* history: the answers of the lookups of this call
  chamadas,            \* history: the lookups made in this run
  pausas,              \* history: the time.sleep(1) executed since the last lookup
  geocodificado        \* history: df as geocodificar_enderecos returned it

vars ==
  <<pc, linhas, letras_unicas, letras_selecionadas, df, latitude_manual,
    longitude_manual, idx, i, location, latitudes, longitudes, total,
    localizados, descartados, end_falhos, origem, pontos, matriz, rota_otima,
    arquivo_csv, telas, tentativas, chamadas, pausas, geocodificado>>

entrada == <<linhas, letras_unicas, letras_selecionadas>>
manual == <<latitude_manual, longitude_manual>>
laco == <<idx, i, location, latitudes, longitudes>>
contagem == <<total, localizados, descartados, end_falhos>>
roteiro == <<origem, pontos, matriz, rota_otima, arquivo_csv>>
historia == <<tentativas, chamadas, pausas, geocodificado>>

Manifestos == UNION {[1..n -> Manifesto] : n \in 0..MaxLinhas}

Init ==
  /\ pc = "inicio"
  /\ linhas \in Manifestos
  /\ letras_unicas = <<>>
  /\ letras_selecionadas = <<>>
  /\ df = <<>>
  /\ latitude_manual = LatPadrao
  /\ longitude_manual = LonPadrao
  /\ idx = 0
  /\ i = 0
  /\ location = None
  /\ latitudes = <<>>
  /\ longitudes = <<>>
  /\ total = 0
  /\ localizados = 0
  /\ descartados = 0
  /\ end_falhos = <<>>
  /\ origem = None
  /\ pontos = <<>>
  /\ matriz = <<>>
  /\ rota_otima = None
  /\ arquivo_csv = None
  /\ telas = {}
  /\ tentativas = <<>>
  /\ chamadas = 0
  /\ pausas = 0
  /\ geocodificado = <<>>

\* lines 147-154: read the PDF, list the codes, stop when there is none
LerPDF ==
  /\ pc = "inicio"
  /\ letras_unicas' = extrair_letras_unicas(linhas)
  /\ IF letras_unicas' = <<>>
     THEN pc' = "parado" /\ telas' = telas \cup {"erro_sem_letras"}
     ELSE pc' = "selecao" /\ telas' = telas
  /\ UNCHANGED <<linhas, letras_selecionadas, df, manual, laco, contagem,
                 roteiro, historia>>

\* the sub-sequences of a list: what st.multiselect may return
RECURSIVE Escolhas(_)
Escolhas(opcoes) ==
  IF opcoes = <<>> THEN {<<>>}
  ELSE LET r == Escolhas(Tail(opcoes))
       IN r \cup {<<Head(opcoes)>> \o e : e \in r}

processar_linhas_filtradas(ls, letras_sel) ==
  DataFrame(processar_dados(ls, letras_sel))

\* lines 156-169: the selection, the extraction, stop when either is empty
Selecionar(sel) ==
  /\ pc = "selecao"
  /\ letras_selecionadas' = sel
  /\ IF sel = <<>>
     THEN /\ pc' = "parado"
          /\ telas' = telas \cup {"aviso_selecao"}
          /\ df' = df
     ELSE /\ df' = processar_linhas_filtradas(linhas, sel)
          /\ IF df' = <<>>
             THEN pc' = "parado" /\ telas' = telas \cup {"erro_vazio"}
             ELSE pc' = "formulario" /\ telas' = telas \cup {"dados_filtrados"}
  /\ UNCHANGED <<linhas, letras_unicas, manual, laco, contagem, roteiro, historia>>

\* lines 171-172: the user types an origin
InformarOrigem(lat, lon) ==
  /\ pc = "formulario"
  /\ latitude_manual' = lat
  /\ longitude_manual' = lon
  /\ UNCHANGED <<pc, entrada, df, laco, contagem, roteiro, telas, historia>>

\* lines 174-176, 72-74: the button; geocodificar_enderecos enters its loop
\* (df is not empty here: line 164 stopped the script otherwise)
GerarRota ==
  /\ pc = "formulario"
  /\ idx' = 0
  /\ i' = 0
  /\ latitudes' = <<>>
  /\ longitudes' = <<>>
  /\ tentativas' = <<>>
  /\ pc' = "geocode"
  /\ UNCHANGED <<entrada, df, manual, location, contagem, roteiro, telas,
                 chamadas, pausas, geocodificado>>

\* mutant: the loop runs once more than the bound
LacoRetryAteInclusive(n) == n <= retries

\* for i in range(retries)
LacoRetry(n) == n < retries

\* lines 64-67: one attempt of geocode_with_retry
Geocode(resposta) ==
  /\ pc = "geocode"
  /\ tentativas' = Append(tentativas, resposta.tipo)
  /\ chamadas' = chamadas + 1
  /\ pausas' = 0
  /\ CASE resposta.tipo = "location" ->
            pc' = "anexar" /\ location' = Some(resposta.coord)
       [] resposta.tipo = "none" ->
            pc' = "anexar" /\ location' = None
       [] resposta.tipo = "timeout" ->
            pc' = "sleep_retry" /\ location' = location
       [] OTHER ->
            \* no handler catches it: the script run ends with the exception
            pc' = "excecao" /\ location' = location
  /\ UNCHANGED <<entrada, df, manual, idx, i, latitudes, longitudes, contagem,
                 roteiro, telas, geocodificado>>

\* lines 68, 64, 69: the pause after a timeout, then the next attempt or None
SleepRetry ==
  /\ pc = "sleep_retry"
  /\ pausas' = pausas + 1
  /\ i' = i + 1
  /\ IF LacoRetry(i')
     THEN pc' = "geocode" /\ location' = location
     ELSE pc' = "anexar" /\ location' = None
  /\ UNCHANGED <<entrada, df, manual, idx, latitudes, longitudes, contagem,
                 roteiro, telas, tentativas, chamadas, geocodificado>>

\* lines 77-85: the coordinate, or the null pair, of this row
Anexar ==
  /\ pc = "anexar"
  /\ IF location # None
     THEN /\ latitudes' = Append(latitudes, Some(location[1][1]))
          /\ longitudes' = Append(longitudes, Some(location[1][2]))
     ELSE /\ latitudes' = Append(latitudes, None)
          /\ longitudes' = Append(longitudes, None)
  /\ telas' = telas \cup {"progresso"}
  /\ pc' = "sleep_registro"
  /\ UNCHANGED <<entrada, df, manual, idx, i, location, contagem, roteiro,
                 historia>>

\* mutant: the pause after a row is left out
SleepRegistroOmitido ==
  /\ pc = "sleep_registro"
  /\ idx' = idx + 1
  /\ i' = 0
  /\ tentativas' = <<>>
  /\ pc' = IF idx' < Len(df) THEN "geocode" ELSE "geocodificado"
  /\ UNCHANGED <<entrada, df, manual, location, latitudes, longitudes,
                 contagem, roteiro, telas, chamadas, pausas, geocodificado>>

\* lines 86, 74-76: the pause after a row, then the next row or the end
SleepRegistro ==
  /\ pc = "sleep_registro"
  /\ pausas' = pausas + 1
  /\ idx' = idx + 1
  /\ i' = 0
  /\ tentativas' = <<>>
  /\ pc' = IF idx' < Len(df) THEN "geocode" ELSE "geocodificado"
  /\ UNCHANGED <<entrada, df, manual, location, latitudes, longitudes,
                 contagem, roteiro, telas, chamadas, geocodificado>>

\* lines 87-89, 177-187: the columns, the counts, the report of the failures
Contar ==
  /\ pc = "geocodificado"
  /\ geocodificado' =
       [k \in 1..Len(df) |->
          df[k] @@ [latitude |-> latitudes[k], longitude |-> longitudes[k]]]
  /\ total' = Len(geocodificado')
  /\ df' = ResetIndex(DropNa(geocodificado'))
  /\ localizados' = Len(df')
  /\ descartados' = total' - localizados'
  /\ end_falhos' = LatitudeNula(df')
  /\ telas' = telas \cup {"sucesso_geocodificacao"}
              \cup (IF end_falhos' # <<>> THEN {"enderecos_nao_geocodificados"}
                    ELSE {})
  /\ pc' = "origem"
  /\ UNCHANGED <<entrada, manual, laco, roteiro, tentativas, chamadas, pausas>>

\* mutant: the origin is refused only when both coordinates are zero
OrigemInformadaOu(lat, lon) == lat # 0 \/ lon # 0

\* line 189
OrigemInformada(lat, lon) == lat # 0 /\ lon # 0

\* lines 189-195: the origin, or the warning and nothing more
DefinirOrigem ==
  /\ pc = "origem"
  /\ IF OrigemInformada(latitude_manual, longitude_manual)
     THEN /\ origem' = Some(<<latitude_manual, longitude_manual>>)
          /\ telas' = telas
          /\ pc' = "matriz"
     ELSE /\ origem' = None
          /\ telas' = telas \cup {"aviso_origem"}
          /\ pc' = "fim_sem_origem"
  /\ UNCHANGED <<entrada, df, manual, laco, contagem, pontos, matriz,
                 rota_otima, arquivo_csv, historia>>

\* lines 196-197
CriarMatriz ==
  /\ pc = "matriz"
  /\ pontos' = <<origem[1]>>
               \o [k \in 1..Len(df) |-> <<df[k].latitude[1], df[k].longitude[1]>>]
  /\ matriz' = criar_matriz_distancias(pontos')
  /\ pc' = "resolver"
  /\ UNCHANGED <<entrada, df, manual, laco, contagem, origem, rota_otima,
                 arquivo_csv, telas, historia>>

\* line 198
ResolverRota(solution) ==
  /\ pc = "resolver"
  /\ rota_otima' = resolver_rota(matriz, solution)
  /\ pc' = "resolvido"
  /\ UNCHANGED <<entrada, df, manual, laco, contagem, origem, pontos, matriz,
                 arquivo_csv, telas, historia>>

\* lines 200-206: the visiting order written on the rows
Ordenar ==
  /\ pc = "resolvido"
  /\ Verdadeiro(rota_otima)
  /\ df' = PosProcessar(df, rota_otima[1])
  /\ telas' = telas \cup {"sucesso_rota"}
  /\ pc' = "exportar"
  /\ UNCHANGED <<entrada, manual, laco, contagem, roteiro, historia>>

\* lines 208-217: the CSV, the download button and the table (lines 219-220
\* hand the rows to st.map, which is outside the model)
Exportar ==
  /\ pc = "exportar"
  /\ arquivo_csv' = Some(gerar_arquivo_rota(df))
  /\ telas' = telas \cup {"download", "tabela_rota"}
  /\ pc' = "fim_rota"
  /\ UNCHANGED <<entrada, df, manual, laco, contagem, origem, pontos, matriz,
                 rota_otima, historia>>

\* mutant: the branch of no route shows nothing
SemRotaMudo ==
  /\ pc = "resolvido"
  /\ ~Verdadeiro(rota_otima)
  /\ pc' = "fim_sem_rota"
  /\ UNCHANGED <<entrada, df, manual, laco, contagem, roteiro, telas, historia>>

\* lines 221-222: no route
SemRota ==
  /\ pc = "resolvido"
  /\ ~Verdadeiro(rota_otima)
  /\ telas' = telas \cup {"erro_rota"}
  /\ pc' = "fim_sem_rota"
  /\ UNCHANGED <<entrada, df, manual, laco, contagem, roteiro, historia>>

Next ==
  \/ LerPDF
  \/ \E sel \in Escolhas(letras_unicas) : Selecionar(sel)
  \/ \E lat \in Latitudes, lon \in Longitudes : InformarOrigem(lat, lon)
  \/ GerarRota
  \/ \E resposta \in Respostas : Geocode(resposta)
  \/ SleepRetry
  \/ Anexar
  \/ SleepRegistro
  \/ Contar
  \/ DefinirOrigem
  \/ CriarMatriz
  \/ \E solution \in Solucoes(Len(matriz)) : ResolverRota(solution)
  \/ Ordenar
  \/ Exportar
  \/ SemRota

Spec == Init /\ [][Next]_vars

\* ---------------------------------------------------------------- claims
AposContar ==
  {"origem", "matriz", "resolver", "resolvido", "exportar", "fim_rota",
   "fim_sem_rota", "fim_sem_origem"}
AposOrigem == AposContar \ {"origem"}
AposMatriz == {"resolver", "resolvido", "exportar", "fim_rota", "fim_sem_rota"}
AposResolver == {"resolvido", "exportar", "fim_rota", "fim_sem_rota"}

TemOrdem(d) == \E k \in 1..Len(d) : "ordem" \in DOMAIN d[k]

\* C1: in one call of geocode_with_retry the lookup is made at most retries
\* (3) times, every lookup but the last one timed out (a location or a
\* not-found answer ends the call at once), and a call whose lookups all
\* timed out returns None after exactly 3 of them.
C1_RetryOnlyOnTimeoutAtMostThree ==
  /\ Len(tentativas) <= retries
  /\ \A k \in 1..(Len(tentativas) - 1) : tentativas[k] = "timeout"
  /\ pc = "geocode" => Len(tentativas) < retries
  /\ pc = "anexar" =>
       LET ultima == tentativas[Len(tentativas)]
       IN /\ Len(tentativas) >= 1
          /\ ultima = "timeout" => (Len(tentativas) = retries /\ location = None)
          /\ ultima = "none" => location = None
          /\ ultima = "location" => location # None

C1_Witness ==
  /\ pc = "anexar"
  /\ tentativas = <<"timeout", "timeout", "timeout">>
  /\ location = None

\* C2: a lookup failure that is not a timeout leaves the row unresolved (None)
\* and the run goes on with the next row; no such failure ends the run.
C2_NonTimeoutFailureNeverAborts ==
  /\ pc # "excecao"
  /\ (pc = "anexar" /\ tentativas[Len(tentativas)] \in {"none", "erro"})
       => location = None

\* C3: once the geocoding run is over, the rows that got a null coordinate
\* pair are shown as the report of unresolved addresses, and the report holds
\* exactly those rows.
C3_UnresolvedRowsReported ==
  (pc \in AposContar /\ LatitudeNula(geocodificado) # <<>>) =>
    /\ end_falhos = LatitudeNula(geocodificado)
    /\ "enderecos_nao_geocodificados" \in telas

\* C4: when every row ended geocoding with a null pair, the run halts before
\* the distance matrix: no matrix, no solve, no visit order, no export.
C4_AllUnresolvedHaltsBeforeMatrix ==
  (pc \in AposContar /\ localizados = 0) =>
    /\ pc \notin AposMatriz
    /\ matriz = <<>>
    /\ rota_otima = None
    /\ ~TemOrdem(df)
    /\ arquivo_csv = None

\* C5: a solution returned by resolver_rota for an (N+1)x(N+1) matrix has
\* length N+1, starts with 0, holds every index 1..N exactly once and holds 0
\* at its first position only.
C5_OpenPathOfLengthNPlusOne ==
  (pc \in AposResolver /\ rota_otima # None) =>
    LET rota == rota_otima[1]
        N == Len(matriz) - 1
    IN /\ Len(rota) = N + 1
       /\ rota[1] = 0
       /\ \A n \in 1..N : Cardinality({k \in 1..Len(rota) : rota[k] = n}) = 1
       /\ \A k \in 2..Len(rota) : rota[k] # 0

\* the row of the frame without its index label and its visit order
Registro(r) == [c \in DOMAIN r \ {"rotulo", "ordem"} |-> r[c]]
Registros(d) == {Registro(d[k]) : k \in 1..Len(d)}

\* C6: after a successful solve over N geocoded rows the routed frame holds
\* exactly those N rows, their visit orders are 0..N-1 without gap or repeat
\* and ascending, the row at point index p of the solver's sequence is the
\* (p-1)-th geocoded row, and the export has one row per routed stop.
C6_RoutedRowsAreTheGeocodedRows ==
  (pc \in {"exportar", "fim_rota"}) =>
    LET geocodificados == DropNa(geocodificado)
        N == Len(geocodificados)
    IN /\ Len(df) = N
       /\ Registros(df) = Registros(geocodificados)
       /\ \A k \in 1..Len(df) : df[k].ordem = k - 1
       /\ \A k \in 1..Len(df) :
            Registro(df[k]) = Registro(geocodificados[rota_otima[1][k + 1]])
       /\ pc = "fim_rota" => Len(arquivo_csv[1]) = N

\* C7: whenever the lookup service is about to be called and was called
\* before in this run, at least one pause was executed since that call.
C7_PauseBetweenLookups ==
  (pc = "geocode" /\ chamadas > 0) => pausas >= 1

C7_Witness ==
  /\ pc = "geocode"
  /\ idx = 1
  /\ i = 1
  /\ chamadas >= 3
  /\ pausas = 1

\* C8 as stated: every origin input, a zero latitude or longitude included,
\* takes a run with a geocoded stop on to the solver, the fallback point
\* standing for a zero input.
C8_ZeroOriginFallsBack ==
  (pc \in AposOrigem /\ localizados >= 1) =>
    /\ origem # None
    /\ pc # "fim_sem_origem"
    /\ (latitude_manual = 0 \/ longitude_manual = 0)
         => origem = Some(<<LatPadrao, LonPadrao>>)

\* C8 amended: an origin whose two coordinates are both non-zero (the fallback
\* point when the fields were left as they are) is bound to index 0 and the
\* run goes on to the matrix and the solver; an origin with a zero latitude or
\* longitude is refused with a warning, and no matrix is built and no route
\* solved.
C8_NonZeroOriginProceeds ==
  pc \in AposOrigem =>
    IF latitude_manual # 0 /\ longitude_manual # 0
    THEN /\ origem = Some(<<latitude_manual, longitude_manual>>)
         /\ pc # "fim_sem_origem"
         /\ pc = "matriz" => ENABLED CriarMatriz
         /\ pc = "resolver" =>
              ENABLED (\E solution \in Solucoes(Len(matriz)) : ResolverRota(solution))
         /\ pc \in AposMatriz => pontos[1] = <<latitude_manual, longitude_manual>>
    ELSE /\ origem = None
         /\ pc = "fim_sem_origem"
         /\ "aviso_origem" \in telas
         /\ matriz = <<>>
         /\ rota_otima = None

C8_Witness ==
  /\ pc = "resolvido"
  /\ localizados >= 1
  /\ pontos[1] = <<LatPadrao, LonPadrao>>
  /\ rota_otima # None

\* <letter>-<digits>
EhCategoria(t) ==
  /\ Len(t) >= 3
  /\ IsLetter(t[1])
  /\ t[2] = "-"
  /\ \A k \in 3..Len(t) : IsDigit(t[k])

\* exactly 8 digits
EhCep(t) == Len(t) = 8 /\ \A k \in 1..8 : IsDigit(t[k])

\* C9: every row produced by the extraction has a postal code of exactly 8
\* digits and a category code of the shape <letter>-<digits>; a line that
\* does not have them yields no row.
C9_ExtractedRowsMatchPattern ==
  pc = "formulario" =>
    \A k \in 1..Len(df) : EhCep(df[k].cep) /\ EhCategoria(df[k].letras)

\* C10: when resolver_rota returns None the run ends in the state of no
\* route: the error is shown, no row has a visit order, nothing is exported;
\* and that state and its error arise from None alone.
C10_NoSolutionIsDistinctFailure ==
  /\ (pc \in {"exportar", "fim_rota", "fim_sem_rota"} /\ rota_otima = None) =>
       /\ pc = "fim_sem_rota"
       /\ "erro_rota" \in telas
       /\ telas \cap {"sucesso_rota", "download", "tabela_rota"} = {}
       /\ ~TemOrdem(df)
       /\ arquivo_csv = None
  /\ (pc = "fim_sem_rota" \/ "erro_rota" \in telas) =>
       (rota_otima = None /\ pc = "fim_sem_rota")

C10_Witness ==
  /\ pc = "fim_sem_rota"
  /\ rota_otima = None
  /\ localizados >= 1
  /\ "erro_rota" \in telas

====
